---- MODULE Spec2Model ----
(***************************************************************************)
(* The metrics collection pipeline of optopodi: Report::run loads the      *)
(* configuration (discovering the repositories of a project that lists     *)
(* none), runs its collection stages in order (top crates, repo            *)
(* participants, repo infos) and writes the report.  Report::repo_infos    *)
(* runs the PR-count producer (ListReposForOrg) concurrently with the CSV  *)
(* consumer over a bounded channel and parses the file the consumer wrote; *)
(* Report::repo_participants does the same with the participants producer *)
(* and is taken in one step.  The query cache, the paginated client,       *)
(* run_producer, the consumer and the participants producer live in the    *)
(* metrics module (metrics.rs, metrics/util.rs): they are modelled from    *)
(* their specified contracts.  ParseSpec runs the two parsers of the       *)
(* report stage on sink files of any content.                              *)
(***************************************************************************)
EXTENDS Integers, Sequences, FiniteSets, TLC

\* ------------------------------------------------------------------ bounds
\* pages the remote API holds per pull-request query
MaxPages == 2
\* runs of the program over the same data directory
MaxRuns == 2
\* capacity of the row channel
ChannelCapacity == 1
\* data lines of a sink file handed to a parser
MaxRecords == 3

\* ------------------------------------------------------------------ inputs
Project(org, repos) == [org |-> org, repos |-> repos]

\* The report.toml files the runs are given: the [[project]] tables.
Configs ==
    { << Project("o1", << "b", "a", "c" >>) >>,
      << Project("o1", << "a" >>), Project("o2", << "a", "b" >>) >>,
      << Project("o1", << >>) >>,
      << Project("o1", << >>), Project("o2", << >>) >> }

\* ----------------------------------------------------------------- strings
Digit == << "0", "1", "2", "3", "4", "5", "6", "7", "8", "9" >>

\* u64::to_string: the decimal digits, most significant first.
RECURSIVE to_string(_)
to_string(n) ==
    IF n < 10 THEN Digit[n + 1]
    ELSE to_string(n \div 10) \o Digit[(n % 10) + 1]

\* ------------------------------------------------------------- remote API
NoCursor == ""

\* The opaque cursor that resumes a query at page k (1-based).
CursorTok(k) == "cur" \o to_string(k * 7)

\* Pull requests on page k of the search for one repository.
ItemsOf(repo, k) == IF repo = "a" THEN 5 ELSE IF repo = "b" THEN 6 ELSE 3 + k

Page(items, cursor) == [items |-> items, cursor |-> cursor]

\* What the remote answers to the pull-request query of org/repo at a cursor,
\* when the query has np pages.
RemotePrPage(np, repo, cursor) ==
    LET k == IF cursor = NoCursor THEN 1
             ELSE CHOOSE i \in 1..(np + 1) : CursorTok(i) = cursor
    IN  Page(ItemsOf(repo, k), IF k < np THEN CursorTok(k + 1) ELSE NoCursor)

\* What the remote answers to the all-repos query of an organisation.
RemoteRepos(org) == IF org = "o1" THEN << "a", "b" >> ELSE << "b" >>

\* ------------------------------------------------------------ query cache
\* Graphql::new(graphql_dir, replay_graphql): one cache instance; it numbers
\* the queries it is asked, starting at 0.
Graphql(dir, replay) == [dir |-> dir, replay_graphql |-> replay, counter |-> 0]

\* One file per key under the instance's directory.
CacheKey(g, query_name) == << g.dir, query_name, g.counter >>

\* Variant of the stored document that keeps the items and loses the cursor.
Encode_without_cursor(page) == << "items", page.items, "cursor", NoCursor >>

\* The JSON document stored for a page, and its decoding.
Encode(page) == << "items", page.items, "cursor", page.cursor >>
Decode(doc) == Page(doc[2], doc[4])

Faults == { "none", "NetworkError", "DecodeError", "CacheWriteError" }

\* fetch_or_replay(key, live_fetch): replay reads the stored page or fails
\* with CacheMiss and never calls the remote; live calls the remote, stores
\* the page under the key and returns it.  d is the cache directory tree,
\* live the page the remote would answer, fault what goes wrong in live mode.
fetch_or_replay(g, d, key, live, fault) ==
    IF g.replay_graphql
    THEN IF key \in DOMAIN d
         THEN [err |-> "none", page |-> Decode(d[key]), disk |-> d, calls |-> 0]
         ELSE [err |-> "CacheMiss", page |-> Page(0, NoCursor), disk |-> d, calls |-> 0]
    ELSE IF fault \in { "NetworkError", "DecodeError" }
         THEN [err |-> fault, page |-> Page(0, NoCursor), disk |-> d, calls |-> 1]
    ELSE IF fault = "CacheWriteError"
         THEN [err |-> fault, page |-> Page(0, NoCursor), disk |-> d, calls |-> 1]
    ELSE [err |-> "none", page |-> Decode(Encode(live)),
          disk |-> (key :> Encode(live)) @@ d, calls |-> 1]

\* ------------------------------------------------------------------ state
VARIABLES
    run,            \* number of the current run over the data directory
    replay_graphql, \* Report.replay_graphql of the current run
    report_toml,    \* the projects report.toml lists
    npages,         \* pages the remote holds per pull-request query
    disk,           \* <data_dir>/graphql: cache key -> stored document
    file,           \* <data_dir>/inputs/repo-infos.csv
    pfile,          \* <data_dir>/inputs/repo-participants.csv
    participants,   \* RepoParticipants.participants, as parsed
    m,              \* position of the main task (Report::run)
    mErr,           \* the error Report::run ended with
    li,             \* load_config: index of the project being looked at
    config,         \* ReportConfig.project, as load_config returns it
    p,              \* position of the spawned producer task
    pErr,           \* the error producer_task returned
    org_repos,      \* ListReposForOrg.org_repos
    graphql,        \* ListReposForOrg.graphql
    oi,             \* producer_task: index of org in org_repos
    ri,             \* producer_task: index of repo in the org's repositories
    cursor,         \* count_pull_requests: cursor of the next page to ask
    acc,            \* count_pull_requests: pull requests counted so far
    chan,           \* rows buffered in the channel
    tx,             \* the channel's sender is alive (owned by producer_task)
    repo_infos,     \* RepoInfos.repos, as parse_repo_infos returned it
    sent,           \* history: rows whose send completed, this run
    nRemote,        \* history: remote API calls made, this run
    trace,          \* history: (cursor asked, page got) of the running count
    touched,        \* history: files read or written, and for whom, this run
    stages,         \* history: stages of Report::run started and returned Ok
    last            \* history: outcome of the previous run

vars == << run, replay_graphql, report_toml, npages, disk, file, m, mErr, li,
           config, p, pErr, org_repos, graphql, oi, ri, cursor, acc, chan,
           tx, repo_infos, sent, nRemote, trace, pfile, participants,
           touched, stages, last >>

mainVars == << m, mErr, li, config, file, repo_infos >>
prodVars == << p, pErr, org_repos, graphql, oi, ri, cursor, acc, trace, tx >>
envVars  == << run, replay_graphql, report_toml, npages >>
partVars == << pfile, participants, last >>

NoFile == [exists |-> FALSE, records |-> << >>]
NoRun == [ok |-> FALSE, replay |-> FALSE, records |-> << >>, precords |-> << >>]
EmptyMap == [k \in {} |-> 0]

\* The state a run starts in: nothing loaded, no task spawned.
StartRun(replay) ==
    /\ replay_graphql' = replay
    /\ m' = "load_config" /\ mErr' = "none" /\ li' = 1
    /\ config' = report_toml
    /\ p' = "unspawned" /\ pErr' = "none"
    /\ org_repos' = << >> /\ graphql' = Graphql("", replay)
    /\ oi' = 0 /\ ri' = 0 /\ cursor' = NoCursor /\ acc' = 0
    /\ chan' = << >> /\ tx' = FALSE /\ repo_infos' = EmptyMap
    /\ sent' = << >> /\ nRemote' = 0 /\ trace' = << >>
    /\ participants' = << >> /\ touched' = {} /\ stages' = << >>

Init ==
    /\ run = 1
    /\ replay_graphql \in BOOLEAN
    /\ report_toml \in Configs
    /\ npages \in 1..MaxPages
    /\ disk = [k \in {} |-> << >>]
    /\ file = NoFile
    /\ m = "load_config" /\ mErr = "none" /\ li = 1
    /\ config = report_toml
    /\ p = "unspawned" /\ pErr = "none"
    /\ org_repos = << >> /\ graphql = Graphql("", replay_graphql)
    /\ oi = 0 /\ ri = 0 /\ cursor = NoCursor /\ acc = 0
    /\ chan = << >> /\ tx = FALSE /\ repo_infos = EmptyMap
    /\ sent = << >> /\ nRemote = 0 /\ trace = << >>
    /\ pfile = NoFile /\ participants = << >> /\ touched = {} /\ stages = << >>
    /\ last = NoRun

\* ------------------------------------------------------- Report (main task)
\* Variant of Report::graphql that forgets the run's flag: always live.
Report_graphql_always_live(dir_name) == Graphql(dir_name, FALSE)

\* Report::graphql(dir_name): a cache instance under graphql/<dir_name> with
\* the run's replay flag.
Report_graphql(dir_name) == Graphql(dir_name, replay_graphql)

\* Variant of organisation_repositories that lists the projects last to first.
organisation_repositories_reversed(projects) ==
    [i \in 1..Len(projects) |->
        [organisation_name |-> projects[Len(projects) + 1 - i].org,
         repository_names |-> projects[Len(projects) + 1 - i].repos]]

\* organisation_repositories: one GitHubOrganization per project, in order.
organisation_repositories(projects) ==
    [i \in 1..Len(projects) |->
        [organisation_name |-> projects[i].org,
         repository_names |-> projects[i].repos]]

\* ListReposForOrg::column_names
column_names == << "Repository Name", "# of PRs" >>

\* The receiver lives from run_producer until produce_input returns.
rxOpen == m \in { "create", "header", "recv" }

\* A cache file, as a path under the data directory.
CachePath(key) == << "graphql" >> \o key

\* Variant of the repo-infos sink path that names the participants' file.
repo_infos_csv_as_participants == << "inputs", "repo-participants.csv" >>

\* input_dir.join("repo-infos.csv") and input_dir.join("repo-participants.csv")
repo_infos_csv == << "inputs", "repo-infos.csv" >>
repo_participants_csv == << "inputs", "repo-participants.csv" >>

Access(owner, op, path) == [owner |-> owner, op |-> op, path |-> path]

\* The cache file a query touches: replay reads it (or looks for it), a live
\* query that succeeds writes it.
CacheAccess(owner, g, key, r) ==
    IF g.replay_graphql THEN { Access(owner, "read", CachePath(key)) }
    ELSE IF r.err = "none" THEN { Access(owner, "write", CachePath(key)) }
    ELSE {}

\* load_config, one project per step: a project that lists no repository gets
\* the ones the all-repos query finds, through a cache instance of its own.
load_config ==
    /\ m = "load_config"
    /\ li <= Len(config)
    /\ IF config[li].repos = << >>
       THEN \E fault \in Faults :
              LET g == Report_graphql("all-repos")
                  r == fetch_or_replay(g, disk, CacheKey(g, "all-repos"),
                           Page(RemoteRepos(config[li].org), NoCursor), fault)
              IN  /\ disk' = r.disk
                  /\ nRemote' = nRemote + r.calls
                  /\ touched' = touched \cup
                        CacheAccess("all-repos", g, CacheKey(g, "all-repos"), r)
                  /\ IF r.err = "none"
                     THEN /\ config' = [config EXCEPT ![li].repos = r.page.items]
                          /\ li' = li + 1
                          /\ UNCHANGED << m, mErr >>
                     ELSE /\ m' = "err" /\ mErr' = r.err
                          /\ UNCHANGED << config, li >>
       ELSE /\ li' = li + 1
            /\ UNCHANGED << config, disk, nRemote, m, mErr, touched >>
    /\ UNCHANGED << envVars, partVars, prodVars, file, repo_infos, chan, sent,
                    stages >>

\* The first position at or after organisation j that names a repository;
\* << 0, 0 >> when the loops are over.
FirstFrom(orgs, j) ==
    LET S == { i \in j..Len(orgs) : orgs[i].repository_names # << >> }
    IN  IF S = {} THEN << 0, 0 >>
        ELSE << CHOOSE i \in S : \A k \in S : i <= k, 1 >>

\* The position after (o, r) in `for org { for repo { .. } }`.
NextPos(orgs, o, r) ==
    IF r < Len(orgs[o].repository_names) THEN << o, r + 1 >>
    ELSE FirstFrom(orgs, o + 1)

\* load_config returned; repo_infos builds the producer and produce_input
\* calls run_producer, which spawns producer_task on a fresh channel.
run_producer ==
    /\ m = "repo_infos"
    /\ m' = "create"
    /\ stages' = Append(stages, << "repo_infos", "start" >>)
    /\ org_repos' = organisation_repositories(config)
    /\ graphql' = Report_graphql("repo-infos")
    /\ LET pos == FirstFrom(org_repos', 1)
       IN  /\ oi' = pos[1] /\ ri' = pos[2]
           /\ p' = IF pos[1] = 0 THEN "done" ELSE "fetch"
           /\ tx' = (pos[1] # 0)
    /\ chan' = << >>
    /\ UNCHANGED << envVars, partVars, disk, file, mErr, li, config, pErr, cursor, acc,
                    repo_infos, sent, nRemote, trace, touched >>

\* Variant of the file's creation that opens it for appending: what an
\* earlier run wrote stays.
file_create_append ==
    /\ m = "create"
    /\ \/ /\ file' = [exists |-> TRUE, records |-> file.records]
          /\ touched' = touched \cup { Access("repo-infos", "write", repo_infos_csv) }
          /\ m' = "header"
          /\ UNCHANGED << mErr, chan >>
       \/ /\ m' = "err" /\ mErr' = "IoError"
          /\ chan' = << >>
          /\ UNCHANGED << file, touched >>
    /\ UNCHANGED << envVars, partVars, prodVars, disk, li, config, repo_infos, sent,
                    nRemote, stages >>

\* produce_input: File::create(path)?  Creating truncates the file.
file_create ==
    /\ m = "create"
    /\ \/ /\ file' = [exists |-> TRUE, records |-> << >>]
          /\ touched' = touched \cup { Access("repo-infos", "write", repo_infos_csv) }
          /\ m' = "header"
          /\ UNCHANGED << mErr, chan >>
       \/ /\ m' = "err" /\ mErr' = "IoError"
          /\ chan' = << >>
          /\ UNCHANGED << file, touched >>
    /\ UNCHANGED << envVars, partVars, prodVars, disk, li, config, repo_infos, sent,
                    nRemote, stages >>

\* The header line of a sink file: the record number column "#" that
\* RepoInfo and RepoParticipant deserialise as `row`, then the producer's
\* column names.
sink_header(names) == << "#" >> \o names

\* A data line of a sink file: the record's number, then the row as received.
sink_record(n, row) == << to_string(n) >> \o row

\* consume: the column header is written first.
consume_header ==
    /\ m = "header"
    /\ \/ /\ file' = [file EXCEPT !.records = Append(@, sink_header(column_names))]
          /\ m' = "recv"
          /\ UNCHANGED << mErr, chan >>
       \/ /\ m' = "err" /\ mErr' = "SinkWriteError"
          /\ chan' = << >>
          /\ UNCHANGED file
    /\ UNCHANGED << envVars, partVars, prodVars, disk, li, config, repo_infos, sent,
                    nRemote, touched, stages >>

\* consume: rx.recv() yields the oldest buffered row, which is written.
consume_row ==
    /\ m = "recv"
    /\ chan # << >>
    /\ \/ /\ file' = [file EXCEPT !.records =
                              Append(@, sink_record(Len(@) - 1, Head(chan)))]
          /\ chan' = Tail(chan)
          /\ UNCHANGED << m, mErr >>
       \/ /\ m' = "err" /\ mErr' = "SinkWriteError"
          /\ chan' = << >>
          /\ UNCHANGED file
    /\ UNCHANGED << envVars, partVars, prodVars, disk, li, config, repo_infos, sent,
                    nRemote, touched, stages >>

\* consume: rx.recv() yields None once the channel is empty and the sender is
\* dropped; consume and produce_input return Ok.
consume_end ==
    /\ m = "recv"
    /\ chan = << >>
    /\ p # "unspawned" /\ ~tx
    /\ m' = "parse"
    /\ UNCHANGED << envVars, partVars, prodVars, disk, file, mErr, li, config, repo_infos,
                    chan, sent, nRemote, touched, stages >>

\* ------------------------------------------------------------ report stage
\* Position of a column in the header line; 0 when the header lacks it.
IndexOf(headers, name) ==
    LET S == { i \in 1..Len(headers) : headers[i] = name }
    IN  IF S = {} THEN 0 ELSE CHOOSE i \in S : \A k \in S : i <= k

\* The largest count the remote data can add up to.
ParseLimit == MaxPages * (MaxPages + 6)

\* str::parse::<u64> on the strings the model writes; -1 when it fails.
ParseU64(s) ==
    IF \E n \in 0..ParseLimit : to_string(n) = s
    THEN CHOOSE n \in 0..ParseLimit : to_string(n) = s
    ELSE -1

\* Deserialising one record as RepoInfo: the columns "#", "Repository Name"
\* and "# of PRs" are looked up by header name.
DecodeRepoInfo(headers, rec) ==
    LET h == IndexOf(headers, "#")
        r == IndexOf(headers, "Repository Name")
        n == IndexOf(headers, "# of PRs")
    IN  IF \/ h = 0 \/ r = 0 \/ n = 0
           \/ Len(rec) # Len(headers)
        THEN [ok |-> FALSE]
        ELSE IF ParseU64(rec[h]) < 0 \/ ParseU64(rec[n]) < 0
        THEN [ok |-> FALSE]
        ELSE [ok |-> TRUE, row |-> ParseU64(rec[h]), repo |-> rec[r],
              num_prs |-> ParseU64(rec[n])]

\* Variant of the loop that keeps the first record of a repository name.
RECURSIVE InsertAll_first_wins(_, _, _)
InsertAll_first_wins(headers, recs, map) ==
    IF recs = << >> THEN [ok |-> TRUE, repos |-> map]
    ELSE LET d == DecodeRepoInfo(headers, Head(recs))
         IN  IF ~d.ok THEN [ok |-> FALSE, repos |-> EmptyMap]
             ELSE InsertAll_first_wins(headers, Tail(recs),
                                       map @@ (d.repo :> d.num_prs))

\* The loop of parse_repo_infos over the records after the header line:
\* map.insert(record.repo, record), the first record that fails ends it.
RECURSIVE InsertAll(_, _, _)
InsertAll(headers, recs, map) ==
    IF recs = << >> THEN [ok |-> TRUE, repos |-> map]
    ELSE LET d == DecodeRepoInfo(headers, Head(recs))
         IN  IF ~d.ok THEN [ok |-> FALSE, repos |-> EmptyMap]
             ELSE InsertAll(headers, Tail(recs), (d.repo :> d.num_prs) @@ map)

parse_repo_infos(records) ==
    IF records = << >> THEN [ok |-> TRUE, repos |-> EmptyMap]
    ELSE InsertAll(Head(records), Tail(records), EmptyMap)

\* repo_infos: produce_input returned Ok, the file is parsed.
parse ==
    /\ m = "parse"
    /\ LET r == parse_repo_infos(file.records)
       IN  IF r.ok
           THEN /\ repo_infos' = r.repos /\ m' = "ok" /\ UNCHANGED mErr
                /\ stages' = Append(stages, << "repo_infos", "ok" >>)
           ELSE /\ m' = "err" /\ mErr' = "CsvError"
                /\ UNCHANGED << repo_infos, stages >>
    /\ touched' = touched \cup { Access("repo-infos", "read", repo_infos_csv) }
    /\ UNCHANGED << envVars, partVars, prodVars, disk, file, li, config, chan, sent, nRemote >>

\* ------------------------------------------------------ stages of Report::run
\* What the stages outside the repo-infos pipeline leave alone.
pipeVars == << prodVars, file, li, config, repo_infos, chan, sent >>

\* run: load_config returned; the three directories are created.
create_dirs ==
    /\ m = "load_config"
    /\ li > Len(config)
    /\ \/ m' = "top_crates" /\ UNCHANGED mErr
       \/ m' = "err" /\ mErr' = "IoError"
    /\ UNCHANGED << envVars, partVars, pipeVars, disk, nRemote, touched, stages >>

\* Variant of the first stage whose error is dropped: the run goes on.
top_crates_ignores_error ==
    /\ m = "top_crates"
    /\ m' = "repo_participants"
    /\ \/ stages' = stages \o << << "top_crates", "start" >>, << "top_crates", "ok" >> >>
       \/ stages' = Append(stages, << "top_crates", "start" >>)
    /\ UNCHANGED << envVars, partVars, pipeVars, disk, nRemote, touched, mErr >>

\* run: `top_crates: self.top_crates(&config).await?`
top_crates ==
    /\ m = "top_crates"
    /\ \/ /\ m' = "repo_participants"
          /\ stages' = stages \o << << "top_crates", "start" >>, << "top_crates", "ok" >> >>
          /\ UNCHANGED mErr
       \/ /\ m' = "err" /\ mErr' = "TopCratesError"
          /\ stages' = Append(stages, << "top_crates", "start" >>)
    /\ UNCHANGED << envVars, partVars, pipeVars, disk, nRemote, touched >>

\* Column names of the participants producer: the columns RepoParticipant
\* deserialises, after "#".
participant_column_names ==
    << "Participant", "Repository", "PRs participated in", "PRs authored",
       "PRs reviewed", "PRs resolved" >>

Observation(login, repo, authored, reviewed, resolved) ==
    [participant |-> login, repo |-> repo, participated_in |-> 1,
     authored |-> authored, reviewed |-> reviewed, resolved |-> resolved]

\* What the remote holds: every repository has one pull request, authored by
\* alice, merged by bors and reviewed by bob.
RepoObservations(repo) ==
    << Observation("alice", repo, 1, 0, 0), Observation("bors", repo, 0, 0, 1),
       Observation("bob", repo, 0, 1, 0) >>

RECURSIVE ReposOf(_)
ReposOf(orgs) ==
    IF orgs = << >> THEN << >>
    ELSE Head(orgs).repository_names \o ReposOf(Tail(orgs))

RECURSIVE ObservationsOf(_)
ObservationsOf(repos) ==
    IF repos = << >> THEN << >>
    ELSE RepoObservations(Head(repos)) \o ObservationsOf(Tail(repos))

RemoteParticipants(orgs) == ObservationsOf(ReposOf(orgs))

\* The logins the participants producer leaves out.
BotLogins ==
    { "rust-highfive", "bors", "rustbot", "rust-log-analyzer", "rust-timer",
      "rfcbot" }

ParticipantRow(o) ==
    << o.participant, o.repo, to_string(o.participated_in), to_string(o.authored),
       to_string(o.reviewed), to_string(o.resolved) >>

\* Variant of the participants producer that emits every participant.
participant_rows_with_bots(items) ==
    [i \in 1..Len(items) |-> ParticipantRow(items[i])]

\* The rows the participants producer emits for the participants observed.
participant_rows(items) ==
    LET kept == SelectSeq(items, LAMBDA o : o.participant \notin BotLogins)
    IN  [i \in 1..Len(kept) |-> ParticipantRow(kept[i])]

\* The lines the sink holds after a header and rows were written to it.
SinkLines(names, rows) ==
    << sink_header(names) >> \o [i \in 1..Len(rows) |-> sink_record(i - 1, rows[i])]

\* What goes wrong with the participants query in live mode: the runs
\* explored are those where the remote answers it (a replay can still miss).
ParticipantFaults == { "none" }

\* repo_participants: produce_input over the participants producer, the whole
\* pipeline in one step.  Its producer asks one query through the cache
\* instance graphql("repo-participants"); a producer that failed closes the
\* channel and the sink holds the header alone.
repo_participants ==
    /\ m = "repo_participants"
    /\ \E fault \in ParticipantFaults, sink \in { "ok", "IoError", "SinkWriteError" } :
         LET g == Report_graphql("repo-participants")
             key == CacheKey(g, "participants")
             r == fetch_or_replay(g, disk, key,
                      Page(RemoteParticipants(organisation_repositories(config)),
                           NoCursor), fault)
             rows == IF r.err = "none" THEN participant_rows(r.page.items) ELSE << >>
         IN  /\ disk' = r.disk
             /\ nRemote' = nRemote + r.calls
             /\ touched' = touched
                   \cup CacheAccess("repo-participants", g, key, r)
                   \cup IF sink = "IoError" THEN {}
                        ELSE { Access("repo-participants", "write",
                                      repo_participants_csv) }
             /\ pfile' = IF sink = "IoError" THEN pfile
                         ELSE IF sink = "SinkWriteError"
                         THEN [exists |-> TRUE, records |-> << >>]
                         ELSE [exists |-> TRUE,
                               records |-> SinkLines(participant_column_names, rows)]
             /\ IF sink = "ok"
                THEN m' = "parse_participants" /\ UNCHANGED mErr
                ELSE m' = "err" /\ mErr' = sink
    /\ stages' = Append(stages, << "repo_participants", "start" >>)
    /\ UNCHANGED << envVars, pipeVars, participants, last >>

\* Variant of is_robot whose list lacks bors.
is_robot_without_bors(login) ==
    login \in { "rust-highfive", "rustbot", "rust-log-analyzer", "rust-timer",
                "rfcbot" }

\* is_robot: ROBOTS.contains(&login)
is_robot(login) ==
    login \in { "rust-highfive", "bors", "rustbot", "rust-log-analyzer",
                "rust-timer", "rfcbot" }

\* Deserialising one record as RepoParticipant, the columns looked up by
\* header name.
DecodeRepoParticipant(headers, rec) ==
    LET col(name) == IndexOf(headers, name)
        num(name) == ParseU64(rec[col(name)])
        names == << "#", "Participant", "Repository", "PRs participated in",
                    "PRs authored", "PRs reviewed", "PRs resolved" >>
        numeric == { "#", "PRs participated in", "PRs authored", "PRs reviewed",
                     "PRs resolved" }
    IN  IF \/ \E i \in 1..Len(names) : col(names[i]) = 0
           \/ Len(rec) # Len(headers)
        THEN [ok |-> FALSE]
        ELSE IF \E n \in numeric : num(n) < 0
        THEN [ok |-> FALSE]
        ELSE [ok |-> TRUE,
              record |-> [row |-> num("#"),
                          participant |-> rec[col("Participant")],
                          repo |-> rec[col("Repository")],
                          participated_in |-> num("PRs participated in"),
                          authored |-> num("PRs authored"),
                          reviewed |-> num("PRs reviewed"),
                          resolved |-> num("PRs resolved")]]

\* The loop of parse_participants over the records after the header line: a
\* record that fails to deserialise ends it with the error, a record of a
\* robot is skipped, any other is pushed.
RECURSIVE PushAll(_, _, _)
PushAll(headers, recs, vec) ==
    IF recs = << >> THEN [ok |-> TRUE, participants |-> vec]
    ELSE LET d == DecodeRepoParticipant(headers, Head(recs))
         IN  IF ~d.ok THEN [ok |-> FALSE, participants |-> << >>]
             ELSE PushAll(headers, Tail(recs),
                          IF is_robot(d.record.participant) THEN vec
                          ELSE Append(vec, d.record))

parse_participants(records) ==
    IF records = << >> THEN [ok |-> TRUE, participants |-> << >>]
    ELSE PushAll(Head(records), Tail(records), << >>)

\* RepoParticipants::in_repo: the participants of one repository, in order.
in_repo(repo) == SelectSeq(participants, LAMBDA q : q.repo = repo)

\* repo_participants: produce_input returned Ok, the file is parsed.
participants_parse ==
    /\ m = "parse_participants"
    /\ LET r == parse_participants(pfile.records)
       IN  IF r.ok
           THEN /\ participants' = r.participants /\ m' = "repo_infos"
                /\ stages' = Append(stages, << "repo_participants", "ok" >>)
                /\ UNCHANGED mErr
           ELSE /\ m' = "err" /\ mErr' = "CsvError"
                /\ UNCHANGED << participants, stages >>
    /\ touched' = touched
          \cup { Access("repo-participants", "read", repo_participants_csv) }
    /\ UNCHANGED << envVars, pipeVars, disk, nRemote, pfile, last >>

\* run: the blocking task that writes the report, first write_top_crates.
write_top_crates ==
    /\ m = "ok"
    /\ \/ /\ m' = "write_high_contributors"
          /\ stages' = stages \o << << "write_top_crates", "start" >>,
                                   << "write_top_crates", "ok" >> >>
          /\ UNCHANGED mErr
       \/ /\ m' = "err" /\ mErr' = "ReportError"
          /\ stages' = Append(stages, << "write_top_crates", "start" >>)
    /\ UNCHANGED << envVars, partVars, pipeVars, disk, nRemote, touched >>

\* run: then write_high_contributors; run returns.
write_high_contributors ==
    /\ m = "write_high_contributors"
    /\ \/ /\ m' = "finished"
          /\ stages' = stages \o << << "write_high_contributors", "start" >>,
                                   << "write_high_contributors", "ok" >> >>
          /\ UNCHANGED mErr
       \/ /\ m' = "err" /\ mErr' = "ReportError"
          /\ stages' = Append(stages, << "write_high_contributors", "start" >>)
    /\ UNCHANGED << envVars, partVars, pipeVars, disk, nRemote, touched >>

\* ------------------------------------------------- ListReposForOrg producer
\* count_pull_requests after a page: the page's pull requests are added to
\* the count, and the query goes on from the page's cursor unless it is
\* absent.
count_pull_requests_first_page_only(count, page) ==
    [count |-> count + page.items, cursor |-> page.cursor, more |-> FALSE]

count_pull_requests(count, page) ==
    [count |-> count + page.items, cursor |-> page.cursor,
     more |-> page.cursor # NoCursor]

\* The successful end of a fetch step: count_pull_requests takes the page in.
FetchOk(page) ==
    LET n == count_pull_requests(acc, page)
    IN  /\ acc' = n.count
        /\ cursor' = n.cursor
        /\ p' = IF n.more THEN "fetch" ELSE "send"
        /\ trace' = Append(trace, [req |-> cursor, page |-> page])

\* The task goes on to position pos of its loops; it returns Ok, dropping
\* its sender, when the loops are over.
GoTo(pos) ==
    /\ oi' = pos[1] /\ ri' = pos[2]
    /\ p' = IF pos[1] = 0 THEN "done" ELSE "fetch"
    /\ tx' = (pos[1] # 0)
    /\ cursor' = NoCursor /\ acc' = 0 /\ trace' = << >>

\* Variant of the fetch step that reports a failed count and goes on with the
\* next repository instead of returning.
producer_fetch_continue ==
    /\ p = "fetch"
    /\ \E fault \in Faults :
         LET repo == org_repos[oi].repository_names[ri]
             r == fetch_or_replay(graphql, disk, CacheKey(graphql, "prs"),
                      RemotePrPage(npages, repo, cursor), fault)
         IN  /\ disk' = r.disk
             /\ nRemote' = nRemote + r.calls
             /\ touched' = touched \cup
                   CacheAccess("repo-infos", graphql, CacheKey(graphql, "prs"), r)
             /\ graphql' = [graphql EXCEPT !.counter = @ + 1]
             /\ IF r.err # "none"
                THEN /\ pErr' = r.err
                     /\ GoTo(NextPos(org_repos, oi, ri))
                ELSE /\ FetchOk(r.page)
                     /\ UNCHANGED << pErr, oi, ri, tx >>
    /\ UNCHANGED << envVars, partVars, mainVars, org_repos, chan, sent, stages >>

\* Variant of the fetch step whose failed task keeps its sender alive.
producer_fetch_keeps_sender ==
    /\ p = "fetch"
    /\ \E fault \in Faults :
         LET repo == org_repos[oi].repository_names[ri]
             r == fetch_or_replay(graphql, disk, CacheKey(graphql, "prs"),
                      RemotePrPage(npages, repo, cursor), fault)
         IN  /\ disk' = r.disk
             /\ nRemote' = nRemote + r.calls
             /\ touched' = touched \cup
                   CacheAccess("repo-infos", graphql, CacheKey(graphql, "prs"), r)
             /\ graphql' = [graphql EXCEPT !.counter = @ + 1]
             /\ IF r.err # "none"
                THEN /\ p' = "failed" /\ pErr' = r.err
                     /\ UNCHANGED << cursor, acc, trace, tx >>
                ELSE /\ FetchOk(r.page)
                     /\ UNCHANGED << pErr, tx >>
    /\ UNCHANGED << envVars, partVars, mainVars, org_repos, oi, ri, chan, sent, stages >>

\* producer_task, one page of count_pull_requests per step.  An error of the
\* count returns it from the task (`.await?`), which drops the sender the
\* task owns.
producer_fetch ==
    /\ p = "fetch"
    /\ \E fault \in Faults :
         LET repo == org_repos[oi].repository_names[ri]
             r == fetch_or_replay(graphql, disk, CacheKey(graphql, "prs"),
                      RemotePrPage(npages, repo, cursor), fault)
         IN  /\ disk' = r.disk
             /\ nRemote' = nRemote + r.calls
             /\ touched' = touched \cup
                   CacheAccess("repo-infos", graphql, CacheKey(graphql, "prs"), r)
             /\ graphql' = [graphql EXCEPT !.counter = @ + 1]
             /\ IF r.err # "none"
                THEN /\ p' = "failed" /\ pErr' = r.err /\ tx' = FALSE
                     /\ UNCHANGED << cursor, acc, trace >>
                ELSE /\ FetchOk(r.page)
                     /\ UNCHANGED << pErr, tx >>
    /\ UNCHANGED << envVars, partVars, mainVars, org_repos, oi, ri, chan, sent, stages >>

\* Variant of the row that carries the organisation as well.
Row_with_org ==
    << org_repos[oi].organisation_name, org_repos[oi].repository_names[ri],
       to_string(acc) >>

\* The row producer_task sends for the repository it has counted.
Row == << org_repos[oi].repository_names[ri], to_string(acc) >>

\* The send failed because the receiver is gone: `?` returns the error.
SendFails ==
    /\ ~rxOpen
    /\ p' = "failed" /\ pErr' = "ChannelClosed" /\ tx' = FALSE
    /\ UNCHANGED << oi, ri, cursor, acc, trace, chan, sent >>

\* Variant of the send that does not wait: a row sent to a full channel is
\* dropped and the producer goes on (try_send, its result ignored).
producer_send_lossy ==
    /\ p = "send"
    /\ \/ /\ rxOpen
          /\ chan' = IF Len(chan) < ChannelCapacity THEN Append(chan, Row) ELSE chan
          /\ sent' = Append(sent, Row)
          /\ GoTo(NextPos(org_repos, oi, ri))
          /\ UNCHANGED pErr
       \/ SendFails
    /\ UNCHANGED << envVars, partVars, mainVars, org_repos, graphql, disk, nRemote,
                    touched, stages >>

\* Variant of the send over a channel that grows instead of making it wait.
producer_send_unbounded ==
    /\ p = "send"
    /\ \/ /\ rxOpen
          /\ chan' = Append(chan, Row)
          /\ sent' = Append(sent, Row)
          /\ GoTo(NextPos(org_repos, oi, ri))
          /\ UNCHANGED pErr
       \/ SendFails
    /\ UNCHANGED << envVars, partVars, mainVars, org_repos, graphql, disk, nRemote,
                    touched, stages >>

\* Variant of the send that ignores the error of a send to a closed channel
\* (`let _ = tx.send(..).await`) and goes on with the next repository.
producer_send_ignores_closed ==
    /\ p = "send"
    /\ \/ /\ rxOpen
          /\ Len(chan) < ChannelCapacity
          /\ chan' = Append(chan, Row)
          /\ sent' = Append(sent, Row)
          /\ GoTo(NextPos(org_repos, oi, ri))
          /\ UNCHANGED pErr
       \/ /\ ~rxOpen
          /\ GoTo(NextPos(org_repos, oi, ri))
          /\ UNCHANGED << pErr, chan, sent >>
    /\ UNCHANGED << envVars, partVars, mainVars, org_repos, graphql, disk, nRemote,
                    touched, stages >>

\* producer_task: tx.send(vec![repo, count_prs.to_string()]).await?  The send
\* waits while the channel is full and fails once the receiver is dropped;
\* after the last repository the task returns Ok.
producer_send ==
    /\ p = "send"
    /\ \/ /\ rxOpen
          /\ Len(chan) < ChannelCapacity
          /\ chan' = Append(chan, Row)
          /\ sent' = Append(sent, Row)
          /\ GoTo(NextPos(org_repos, oi, ri))
          /\ UNCHANGED pErr
       \/ SendFails
    /\ UNCHANGED << envVars, partVars, mainVars, org_repos, graphql, disk, nRemote,
                    touched, stages >>

\* ---------------------------------------------------------------- the runs
\* The process ended (both tasks are over); the program is run again over
\* the same data directory, with or without --replay-graphql.
\* The participants producer of this run got its page.
ParticipantsFetched ==
    \E e \in touched : e.owner = "repo-participants" /\ Head(e.path) = "graphql"
                        /\ (e.op = "write" \/ Tail(e.path) \in DOMAIN disk)

new_run ==
    /\ m \in { "finished", "err" }
    /\ p \in { "unspawned", "done", "failed" }
    /\ run < MaxRuns
    /\ run' = run + 1
    /\ \E replay \in BOOLEAN : StartRun(replay)
    /\ last' = IF m = "finished" /\ p = "done" /\ ParticipantsFetched
               THEN [ok |-> TRUE, replay |-> replay_graphql,
                     records |-> file.records, precords |-> pfile.records]
               ELSE NoRun
    /\ UNCHANGED << report_toml, npages, disk, file, pfile >>

Next ==
    \/ load_config
    \/ create_dirs
    \/ top_crates
    \/ repo_participants
    \/ participants_parse
    \/ run_producer
    \/ file_create
    \/ consume_header
    \/ consume_row
    \/ consume_end
    \/ parse
    \/ write_top_crates
    \/ write_high_contributors
    \/ producer_fetch
    \/ producer_send
    \/ new_run

Spec == Init /\ [][Next]_vars

\* ---------------------------------------------- the parsers on any sink file
\* The two parsers of the report stage are functions of the file they read:
\* they are also run on files drawn from the lines below, whatever wrote them.
ParticipantLines ==
    { << "0", login, repo, "1", "1", "0", "0" >> :
          login \in { "alice", "bors", "rustbot" }, repo \in { "a", "b" } }
      \cup { << "0", "alice", "a", "x", "1", "0", "0" >> }

RepoInfoLines ==
    { << "0", repo, count >> : repo \in { "a", "b" }, count \in { "5", "6" } }
      \cup { << "0", "a", "x" >> }

SeqsUpTo(S, n) == UNION { [1..k -> S] : k \in 0..n }

SinkFile(names, lines) ==
    [exists |-> TRUE, records |-> << sink_header(names) >> \o lines]

\* A run that stands before one of the two parsers with some file to read.
InitParse ==
    /\ run = 1 /\ replay_graphql = FALSE
    /\ report_toml = << Project("o1", << "a", "b" >>) >>
    /\ npages = 1
    /\ disk = [k \in {} |-> << >>]
    /\ \/ /\ m = "parse_participants"
          /\ \E lines \in SeqsUpTo(ParticipantLines, MaxRecords) :
                pfile = SinkFile(participant_column_names, lines)
          /\ file = NoFile
       \/ /\ m = "parse"
          /\ \E lines \in SeqsUpTo(RepoInfoLines, MaxRecords) :
                file = SinkFile(column_names, lines)
          /\ pfile = NoFile
    /\ mErr = "none" /\ li = 2
    /\ config = report_toml
    /\ p = "unspawned" /\ pErr = "none"
    /\ org_repos = << >> /\ graphql = Graphql("", replay_graphql)
    /\ oi = 0 /\ ri = 0 /\ cursor = NoCursor /\ acc = 0
    /\ chan = << >> /\ tx = FALSE /\ repo_infos = EmptyMap
    /\ sent = << >> /\ nRemote = 0 /\ trace = << >>
    /\ participants = << >> /\ touched = {} /\ stages = << >>
    /\ last = NoRun

ParseNext ==
    \/ participants_parse
    \/ parse

ParseSpec == InitParse /\ [][ParseNext]_vars

\* tokio runs every task that can make progress.
FairSpec ==
    /\ Spec
    /\ WF_vars(file_create) /\ WF_vars(consume_header) /\ WF_vars(consume_row)
    /\ WF_vars(consume_end)
    /\ WF_vars(producer_fetch) /\ WF_vars(producer_send)

\* ------------------------------------------------------------------ claims
\* What produce_input returned to repo_infos: "Ok", the error, or "pending"
\* while it has not returned.
produce_input_result ==
    IF \/ m \in { "parse", "ok", "write_high_contributors", "finished" }
       \/ (m = "err" /\ p # "unspawned" /\ mErr \in { "CsvError", "ReportError" })
    THEN "Ok"
    ELSE IF m = "err" /\ p # "unspawned" THEN mErr
    ELSE "pending"

\* The rows the consumer wrote after the header line, without their record
\* numbers.
written ==
    IF file.records = << >> THEN << >>
    ELSE [i \in 1..(Len(file.records) - 1) |-> Tail(file.records[i + 1])]

\* Number of (organisation, repository) pairs the producer was configured with.
RECURSIVE TotalRepos(_)
TotalRepos(orgs) ==
    IF orgs = << >> THEN 0
    ELSE Len(Head(orgs).repository_names) + TotalRepos(Tail(orgs))

\* C1: when the producer task failed with an error of its own and the
\* consumer did not fail, produce_input returns that error to its caller; it
\* never returns Ok after its producer failed.
C1_ProducerErrorSurfaces ==
    ( /\ p = "failed"
      /\ pErr # "ChannelClosed"
      /\ produce_input_result \notin { "pending", "IoError", "SinkWriteError" } )
    => produce_input_result = pErr

\* C2: no partial success: whenever the report stage parses the sink file
\* (produce_input returned Ok), the file holds the header and one row for
\* every configured repository.
C2_NoPartialSuccess ==
    produce_input_result = "Ok"
    => /\ file.records # << >>
       /\ Head(file.records) = sink_header(column_names)
       /\ Len(written) = TotalRepos(org_repos)

IsPrefix(a, b) == Len(a) <= Len(b) /\ SubSeq(b, 1, Len(a)) = a

C4_Backpressure ==
    /\ Len(chan) <= ChannelCapacity
    /\ m \in { "create", "header" } => Len(sent) <= ChannelCapacity
    /\ m = "recv" => /\ Len(sent) <= Len(written) + ChannelCapacity
                     /\ sent = written \o chan

\* C4 witness: a producer of three rows waits in its next send on a full
\* channel from which nothing has been received yet.
C4_Witness ==
    /\ p = "send"
    /\ m = "recv"
    /\ TotalRepos(org_repos) = 3
    /\ Len(chan) = ChannelCapacity
    /\ Len(sent) = ChannelCapacity
    /\ written = << >>

\* The producer task returned: with Ok, or with an error.
ProducerReturned == p \in { "done", "failed" }

\* C5: once the producer task has returned, with Ok or with an error, the
\* consumer drains the rows still buffered, sees the end of the data and
\* stops: produce_input returns, and if it returns Ok every row sent is in
\* the file.
C5_ClosureEndsPipeline ==
    (ProducerReturned /\ rxOpen)
    ~> (~rxOpen /\ (produce_input_result = "Ok" => written = sent))

\* C5 witness: the producer returned an error while a row it sent is still
\* buffered and the consumer is draining.
C5_Witness ==
    /\ p = "failed"
    /\ pErr = "NetworkError"
    /\ m = "recv"
    /\ chan # << >>

ConsumerFailed == m = "err" /\ mErr \in { "IoError", "SinkWriteError" }

\* C6: when the consumer has failed while the producer still runs, the
\* producer ends with an error; a send attempted once the receiver is gone
\* fails with ChannelClosed and sends nothing; and after its failure the
\* producer sends and fetches nothing further.
C6_ProducerSeesClosure ==
    /\ (ConsumerFailed /\ p \in { "fetch", "send" }) ~> (p = "failed")
    /\ [][ /\ (ConsumerFailed /\ p = "send")
              => (p' = "failed" /\ pErr' = "ChannelClosed" /\
                  sent' = sent /\ chan' = chan /\ graphql' = graphql)
           /\ (ConsumerFailed /\ p = "failed" /\ run' = run)
              => (p' = "failed" /\ sent' = sent /\ graphql' = graphql /\
                  nRemote' = nRemote) ]_vars

\* C6 witness: the sink write failed and the producer, with repositories
\* left to count, ended in ChannelClosed.
C6_Witness ==
    /\ m = "err" /\ mErr = "SinkWriteError"
    /\ p = "failed" /\ pErr = "ChannelClosed"
    /\ Len(sent) + 1 < TotalRepos(org_repos)

TestPages ==
    { Page(n, c) : n \in { 0, MaxPages }, c \in { NoCursor, CursorTok(MaxPages) } }
TestInstances ==
    { [graphql EXCEPT !.replay_graphql = FALSE], Graphql("all-repos", FALSE) }

RECURSIVE TraceItems(_)
TraceItems(t) == IF t = << >> THEN 0 ELSE Head(t).page.items + TraceItems(Tail(t))

RECURSIVE RemoteItems(_, _)
RemoteItems(repo, k) == IF k = 0 THEN 0 ELSE ItemsOf(repo, k) + RemoteItems(repo, k - 1)

\* C9: pagination: the first page of a count is asked with no cursor, each
\* further page with the cursor the page before returned; the count is the
\* sum of the items of the pages got; no page is asked after a page without
\* cursor, and the count ends exactly then.  In a live run the pages got
\* are the remote's pages in order, and the finished count is the sum of
\* all of them.
C9_Pagination ==
    p \in { "fetch", "send" } =>
      /\ \A i \in 1..Len(trace) :
            /\ trace[i].req = IF i = 1 THEN NoCursor ELSE trace[i - 1].page.cursor
            /\ i < Len(trace) => trace[i].page.cursor # NoCursor
      /\ cursor = IF trace = << >> THEN NoCursor ELSE trace[Len(trace)].page.cursor
      /\ acc = TraceItems(trace)
      /\ p = "send" <=> (trace # << >> /\ trace[Len(trace)].page.cursor = NoCursor)
      /\ ~replay_graphql =>
            LET repo == org_repos[oi].repository_names[ri]
            IN  /\ Len(trace) <= npages
                /\ \A i \in 1..Len(trace) :
                      trace[i].page = RemotePrPage(npages, repo, trace[i].req)
                /\ acc = RemoteItems(repo, Len(trace))
                /\ p = "send" => Len(trace) = npages

\* C9 witness: a live count over more than one page has ended.
C9_Witness ==
    /\ ~replay_graphql
    /\ p = "send"
    /\ Len(trace) = MaxPages
    /\ npages = MaxPages
    /\ acc = RemoteItems(org_repos[oi].repository_names[ri], MaxPages)

\* C10: a failed page fails the whole producer task: the step in which an
\* error arises ends the task and sends nothing; from then on the task
\* fetches no page (no retry, no later page, no later repository), makes no
\* remote call, writes no cache file and sends no row, and the rows sent
\* before stay as they were.
C10_FailedPageFailsTask ==
    [][ /\ (pErr = "none" /\ pErr' # "none")
           => (p' = "failed" /\ sent' = sent /\ chan' = chan)
        /\ (p = "failed" /\ run' = run)
           => (p' = "failed" /\ pErr' = pErr /\ graphql' = graphql /\
               sent' = sent /\ nRemote' = nRemote /\ disk' = disk /\
               << oi', ri' >> = << oi, ri >>) ]_vars

\* C10 witness: a page fetch failed after a row was sent and with a later
\* repository still to count.
C10_Witness ==
    /\ p = "failed"
    /\ pErr \in { "NetworkError", "DecodeError", "CacheWriteError", "CacheMiss" }
    /\ sent # << >>
    /\ NextPos(org_repos, oi, ri)[1] # 0

\* The repositories of the projects, project after project, each project's in
\* the order it lists them.
RECURSIVE ConfiguredRepos(_)
ConfiguredRepos(projects) ==
    IF projects = << >> THEN << >>
    ELSE Head(projects).repos \o ConfiguredRepos(Tail(projects))

\* One row per configured repository, with the count the remote holds for it.
ExpectedRows(projects, np) ==
    LET repos == ConfiguredRepos(projects)
    IN  [i \in 1..Len(repos) |-> << repos[i], to_string(RemoteItems(repos[i], np)) >>]

\* C11: in a live run the rows the PR-count producer has sent are the first
\* rows of: one row (repository, count) per configured (organisation,
\* repository) pair, in configuration order, the count being the one the
\* remote holds for the repository; a producer that returned Ok has sent
\* exactly all of them.
C11_RowsInConfigOrder ==
    (~replay_graphql /\ p # "unspawned")
    => /\ IsPrefix(sent, ExpectedRows(config, npages))
       /\ p = "done" => sent = ExpectedRows(config, npages)

\* C11 witness: a live producer returned Ok over a project listing b, a, c in
\* that order, each counted over two pages.
C11_Witness ==
    /\ ~replay_graphql
    /\ p = "done"
    /\ npages = 2
    /\ sent = << << "b", "12" >>, << "a", "10" >>, << "c", "9" >> >>

\* C12: row width: every row the PR-count producer sends, is about to send
\* or has buffered in the channel has exactly as many fields as
\* column_names() names, which is 2.
C12_RowWidth ==
    /\ Len(column_names) = 2
    /\ \A i \in 1..Len(sent) : Len(sent[i]) = Len(column_names)
    /\ \A i \in 1..Len(chan) : Len(chan[i]) = Len(column_names)
    /\ p = "send" => Len(Row) = Len(column_names)

\* C12 witness: rows were sent and one is buffered while the next is ready.
C12_Witness ==
    /\ Len(sent) >= 2
    /\ chan # << >>
    /\ p = "send"

\* C13: the sink file holds nothing when the header is about to be written;
\* once it holds anything, its first line is the header and no later line is
\* the header; and when produce_input returns Ok the file holds the header,
\* also when no row was sent.
C13_HeaderOnceFirst ==
    /\ m = "header" => file.records = << >>
    /\ file.records # << >>
       => /\ Head(file.records) = sink_header(column_names)
          /\ \A i \in 2..Len(file.records) :
                file.records[i] # sink_header(column_names)
    /\ produce_input_result = "Ok" => file.records # << >>

\* C13 witness: in a second run over a file an earlier run filled, the
\* pipeline ended Ok without a row sent and the file holds the header alone.
C13_Witness ==
    /\ run = 2
    /\ produce_input_result = "Ok"
    /\ sent = << >>
    /\ file.records = << sink_header(column_names) >>
    /\ last.ok /\ Len(last.records) > 1

CanonStages ==
    << << "top_crates", "start" >>, << "top_crates", "ok" >>,
       << "repo_participants", "start" >>, << "repo_participants", "ok" >>,
       << "repo_infos", "start" >>, << "repo_infos", "ok" >>,
       << "write_top_crates", "start" >>, << "write_top_crates", "ok" >>,
       << "write_high_contributors", "start" >>,
       << "write_high_contributors", "ok" >> >>

StageEvents == { stages[i] : i \in 1..Len(stages) }

C16_CacheWrittenOnce ==
    [][ run' = run
        => \A e \in touched :
             (e.op = "write" /\ Head(e.path) = "graphql")
             => /\ Tail(e.path) \in DOMAIN disk'
                /\ disk'[Tail(e.path)] = disk[Tail(e.path)] ]_vars

\* C17: no file is touched for two pipelines: the cache files and the sink
\* file a pipeline (or the all-repos query) reads or writes in a run are
\* touched for it alone.
C17_PipelinesDisjoint ==
    \A a \in touched : \A b \in touched : a.path = b.path => a.owner = b.owner

\* C17 witness: the all-repos query and both pipelines have touched their
\* cache files, and both pipelines their sink files.
C17_Witness ==
    /\ \A o \in { "all-repos", "repo-participants", "repo-infos" } :
          \E e \in touched : e.owner = o /\ Head(e.path) = "graphql"
    /\ \A o \in { "repo-participants", "repo-infos" } :
          \E e \in touched : e.owner = o /\ Head(e.path) = "inputs"
    /\ m = "finished"

\* C18: replay reproducibility: in a replay run that follows a live run which
\* completed successfully, no remote call is made, no page is missed, and a
\* run that completes has written both sink files as the live run wrote
\* them.
C18_ReplayReproduces ==
    (run > 1 /\ replay_graphql /\ last.ok /\ ~last.replay)
    => /\ nRemote = 0
       /\ mErr # "CacheMiss" /\ pErr # "CacheMiss"
       /\ m \in { "parse_participants", "repo_infos", "create", "header", "recv",
                  "parse", "ok", "write_high_contributors", "finished" }
          => pfile.records = last.precords
       /\ m = "finished" => file.records = last.records

\* The data lines of the participants' file and their decoding.
PLines == IF pfile.records = << >> THEN << >> ELSE Tail(pfile.records)
PDecoded == [i \in 1..Len(PLines) |-> DecodeRepoParticipant(Head(pfile.records), PLines[i])]

\* C19: parse_participants returns exactly the records of the file whose
\* participant is not a denylisted bot, in file order, duplicates of a
\* (participant, repo) pair kept as separate entries (in_repo yields each of
\* them); it fails, returning nothing, exactly when a record fails to decode.
C19_ParseParticipants ==
    LET Denylist == { "rust-highfive", "bors", "rustbot", "rust-log-analyzer",
                      "rust-timer", "rfcbot" }
        allok == \A i \in 1..Len(PLines) : PDecoded[i].ok
        kept == SelectSeq(PDecoded, LAMBDA d : d.record.participant \notin Denylist)
    IN  /\ m = "repo_infos"
           => /\ allok
              /\ participants = [i \in 1..Len(kept) |-> kept[i].record]
              /\ \A r \in { "a", "b" } :
                    Len(in_repo(r)) =
                       Cardinality({ i \in 1..Len(kept) : kept[i].record.repo = r })
        /\ (m = "err" /\ pfile.exists) => (~allok /\ participants = << >>)

\* C19 witness: a file with alice on repository a twice and bors between was
\* parsed: alice is held twice, bors is not.
C19_Witness ==
    /\ m = "repo_infos"
    /\ PLines = << << "0", "alice", "a", "1", "1", "0", "0" >>,
                   << "0", "bors", "a", "1", "1", "0", "0" >>,
                   << "0", "alice", "a", "1", "1", "0", "0" >> >>
    /\ Len(participants) = 2
    /\ participants[1] = participants[2]
    /\ Len(in_repo("a")) = 2

\* The data lines of the repo-infos file.
RLines == IF file.records = << >> THEN << >> ELSE Tail(file.records)

\* C20: after parse_repo_infos the map has exactly one entry per repository
\* name in the file, holding the number of the last line with that name, so
\* every name in the file has an entry; the parse fails exactly when a line
\* fails to decode.
C20_LastRecordWins ==
    LET names == { RLines[i][2] : i \in 1..Len(RLines) }
        lastOf(n) == CHOOSE i \in 1..Len(RLines) :
                        /\ RLines[i][2] = n
                        /\ \A k \in 1..Len(RLines) : RLines[k][2] = n => k <= i
        allok == \A i \in 1..Len(RLines) :
                    DecodeRepoInfo(Head(file.records), RLines[i]).ok
    IN  /\ m = "ok"
           => /\ allok
              /\ DOMAIN repo_infos = names
              /\ \A n \in names : repo_infos[n] = ParseU64(RLines[lastOf(n)][3])
        /\ (m = "err" /\ file.exists) => ~allok

\* C20 witness: a file naming repository a with 5, then b, then a again with
\* 6 was parsed: a is held with 6.
C20_Witness ==
    /\ m = "ok"
    /\ RLines = << << "0", "a", "5" >>, << "0", "b", "6" >>, << "0", "a", "6" >> >>
    /\ DOMAIN repo_infos = { "a", "b" }
    /\ repo_infos["a"] = 6

====
